---- MODULE Spec2Model ----
(***************************************************************************)
(* Expression calculator and sequentializing compiler of                   *)
(* "Weekly Exercise 4": exprparser.py (grammar), calculator.py (tree       *)
(* walking evaluator), compiler.py (compiler to Python statements) and     *)
(* comptest.py (driver that executes the compiled statements).             *)
(*                                                                         *)
(* Python strings are TLA+ strings, Python lists are sequences, a Python   *)
(* dict is a record [keys, val] that keeps the insertion order of its keys *)
(* (sorted() is stable, so that order is observable).                      *)
(***************************************************************************)
EXTENDS Integers, Sequences, FiniteSets, TLC

(***************************************************************************)
(* Bounds of the model.                                                    *)
(***************************************************************************)
\* nodes (const/get/set/apply) of all expressions compiled in one session
MaxNodes == 5

\* nodes of all expressions compiled and run in one session of main
MaxRunNodes == 4

\* nodes of all expressions parsed in one session of two parsers
MaxParseNodes == 4

\* nodes of all expressions compiled in one session over similar names
MaxSortNodes == 5

\* nodes of all expressions compiled in one session of inputs of several lines
MaxLineNodes == 5

\* nodes of all expressions evaluated in one session of the calculator
MaxCalcNodes == 6

(***************************************************************************)
(* Python built-ins used by the program.                                   *)
(***************************************************************************)
\* the characters of identifiers and numbers, in code point order
CodePoints == "0123456789ABCDEFGHIJKLMNOPQRSTUVWXYZ_abcdefghijklmnopqrstuvwxyz"

RECURSIVE IndexOf(_, _, _)
IndexOf(c, s, i) ==
    IF i > Len(s) THEN 0
    ELSE IF SubSeq(s, i, i) = c THEN i ELSE IndexOf(c, s, i + 1)

\* ord(c), up to an order preserving renumbering
ord(c) == IndexOf(c, CodePoints, 1)

\* a < b for Python str: lexicographic by code point
RECURSIVE str_lt(_, _)
str_lt(a, b) ==
    IF Len(b) = 0 THEN FALSE
    ELSE IF Len(a) = 0 THEN TRUE
    ELSE IF Head(a) = Head(b) THEN str_lt(Tail(a), Tail(b))
    ELSE ord(Head(a)) < ord(Head(b))

\* sep.join(strs)
RECURSIVE join(_, _)
join(sep, strs) ==
    IF Len(strs) = 0 THEN ""
    ELSE IF Len(strs) = 1 THEN strs[1]
    ELSE strs[1] \o sep \o join(sep, Tail(strs))

\* s.startswith(prefix), also for lists
StartsWith(s, prefix) ==
    Len(s) >= Len(prefix) /\ SubSeq(s, 1, Len(prefix)) = prefix

\* the character of s at position i, "" outside of s
At(s, i) == IF 1 <= i /\ i <= Len(s) THEN SubSeq(s, i, i) ELSE ""

Digits == "0123456789"

IsDigit(c) == IndexOf(c, Digits, 1) > 0

\* [a-zA-Z0-9_]
IsNameChar(c) == IndexOf(c, CodePoints, 1) > 0

\* [a-zA-Z_]
IsNameStart(c) == IsNameChar(c) /\ ~IsDigit(c)

\* the first position from i on that holds no name character
RECURSIVE EndOfName(_, _)
EndOfName(s, i) ==
    IF i > Len(s) \/ ~IsNameChar(SubSeq(s, i, i)) THEN i ELSE EndOfName(s, i + 1)

\* the first position from i on that holds no digit
RECURSIVE EndOfNumber(_, _)
EndOfNumber(s, i) ==
    IF i > Len(s) \/ ~IsDigit(SubSeq(s, i, i)) THEN i ELSE EndOfNumber(s, i + 1)

\* the first position from i on that holds c, Len(s) + 1 if there is none
RECURSIVE Find(_, _, _)
Find(s, c, i) ==
    IF i > Len(s) \/ SubSeq(s, i, i) = c THEN i ELSE Find(s, c, i + 1)

\* int(s) of a string of digits
RECURSIVE int(_)
int(s) ==
    IF Len(s) = 0 THEN 0
    ELSE 10 * int(SubSeq(s, 1, Len(s) - 1)) + (IndexOf(SubSeq(s, Len(s), Len(s)), Digits, 1) - 1)

\* s.split("\n")
RECURSIVE split(_)
split(s) ==
    LET j == Find(s, "\n", 1)
    IN IF j > Len(s) THEN <<s>> ELSE <<SubSeq(s, 1, j - 1)>> \o split(SubSeq(s, j + 1, Len(s)))

\* the text of stmt before its first " = ", "" if it has none
RECURSIVE TargetFrom(_, _)
TargetFrom(stmt, i) ==
    IF i + 2 > Len(stmt) THEN ""
    ELSE IF SubSeq(stmt, i, i + 2) = " = " THEN SubSeq(stmt, 1, i - 1)
    ELSE TargetFrom(stmt, i + 1)

Target(stmt) == TargetFrom(stmt, 1)

\* a dict: keys in insertion order, val maps each key to its value
EmptyDict == [keys |-> <<>>, val |-> <<>>]

InDict(d, k) == \E i \in 1..Len(d.keys) : d.keys[i] = k

DictIndex(d, k) == CHOOSE i \in 1..Len(d.keys) : d.keys[i] = k

DictGet(d, k) == d.val[DictIndex(d, k)]

\* d[k] = v
DictSet(d, k, v) ==
    IF InDict(d, k)
    THEN [d EXCEPT !.val[DictIndex(d, k)] = v]
    ELSE [keys |-> Append(d.keys, k), val |-> Append(d.val, v)]

\* del d[k]
DictDel(d, k) ==
    LET keep == {i \in 1..Len(d.keys) : d.keys[i] # k}
        F[i \in 0..Len(d.keys)] ==
            IF i = 0 THEN EmptyDict
            ELSE IF i \in keep
                 THEN [keys |-> Append(F[i - 1].keys, d.keys[i]),
                       val |-> Append(F[i - 1].val, d.val[i])]
                 ELSE F[i - 1]
    IN F[Len(d.keys)]

(***************************************************************************)
(* ValueTree: a value and an ordered list of child trees.  A value is a    *)
(* Python str or a Python int.                                             *)
(***************************************************************************)
StrVal(s) == [str |-> s]
IntVal(n) == [int |-> n]

ValueTree(value, children) == [value |-> value, children |-> children]

get_value(t) == t.value
get_children(t) == t.children

\* str(v) of a tree value
str(v) == IF "int" \in DOMAIN v THEN ToString(v.int) ELSE v.str

N_APPLY == StrVal("apply")
N_SET == StrVal("set")
N_GET == StrVal("get")
N_CONST == StrVal("const")
N_PASS == StrVal("pass")

(***************************************************************************)
(* The grammar of exprparser.py.  Each rule builds the tree of its         *)
(* production; an input is the text of an expression together with what    *)
(* parse returns for it: (errors, ast).                                    *)
(***************************************************************************)
Leaf(v) == ValueTree(v, <<>>)

p_statement_empty == ValueTree(N_PASS, <<>>)

p_expression_assign(name, e) == ValueTree(N_SET, <<Leaf(StrVal(name)), e>>)

p_expression_binop(a, op, b) == ValueTree(N_APPLY, <<Leaf(StrVal(op)), a, b>>)

p_expression_uminus(e) == ValueTree(N_APPLY, <<Leaf(StrVal("neg")), e>>)

p_fn_apply_0(name) == ValueTree(N_APPLY, <<Leaf(StrVal(name))>>)

p_fn_apply(name, expr_list) == ValueTree(N_APPLY, <<Leaf(StrVal(name))>> \o expr_list)

p_expression_number(n) == ValueTree(N_CONST, <<Leaf(IntVal(n))>>)

p_expression_name(name) == ValueTree(N_GET, <<Leaf(StrVal(name))>>)

\* an expression text with the tree it parses to
Parsed(text, tree) == [expr_str |-> text, ast |-> tree]

\* what parse returns for an input text: (errors, ast)
ParseResult(text, errors, tree) == [expr_str |-> text, errors |-> errors, ast |-> tree]

\* the empty input: exprparser.py tests, parse("")
EmptyInput == ParseResult("", <<>>, p_statement_empty)

\* malformed inputs: compiler.py and exprparser.py tests
BadInputs ==
    {ParseResult("x + - + 1", <<"Syntax error at '+'">>, p_statement_empty),
     ParseResult("(1,2)", <<"Syntax error at ','">>, p_statement_empty)}

\* expr_list of the top k entries of the parser's stack: p_expr_list_1, p_expr_list_2
RECURSIVE expr_list(_)
expr_list(entries) ==
    IF Len(entries) = 1 THEN Parsed(entries[1].expr_str, <<entries[1].ast>>)
    ELSE LET p1 == expr_list(SubSeq(entries, 1, Len(entries) - 1))
             p3 == entries[Len(entries)]
         IN Parsed(p1.expr_str \o "," \o p3.expr_str, Append(p1.ast, p3.ast))

\* parse of a text of one token or none, the texts unparse can return
parse_token(text) ==
    IF Len(text) = 0 THEN EmptyInput
    ELSE IF IsNameStart(SubSeq(text, 1, 1)) /\ EndOfName(text, 1) = Len(text) + 1
    THEN ParseResult(text, <<>>, p_expression_name(text))
    ELSE IF EndOfNumber(text, 1) = Len(text) + 1
    THEN ParseResult(text, <<>>, p_expression_number(int(text)))
    ELSE ParseResult(text, <<"Illegal character '" \o SubSeq(text, 1, 1) \o "'">>,
                     p_statement_empty)

\* ExprParser.unparse: a tree without children is str of its value; for any
\* other tree the lookup self.fn_to_op fails, an ExprParser has no such
\* attribute, and the lines after it are never reached
unparse(t) ==
    LET children == get_children(t)
        n == Len(children)
    IN IF n = 0 THEN [exc |-> "", text |-> str(get_value(t)), ast |-> t]
       ELSE [exc |-> "AttributeError", text |-> "", ast |-> t]

(***************************************************************************)
(* compiler.py                                                             *)
(***************************************************************************)
\* a name that runs one generation ahead
make_gen_name_ahead(name, gen_num) ==
    IF gen_num > 0 THEN "_" \o name \o "_" \o ToString(gen_num + 1) ELSE name

make_gen_name(name, gen_num) ==
    IF gen_num > 0 THEN "_" \o name \o "_" \o ToString(gen_num) ELSE name

\* How a call of compile_ast ends: it returns code_str, or it raises exc.
\* var_dict and code are the caller's objects as the call left them.
Return(code_str, var_dict, code) ==
    [exc |-> "", msg |-> "", code_str |-> code_str, var_dict |-> var_dict, code |-> code]

Raise(exc, msg, var_dict, code) ==
    [exc |-> exc, msg |-> msg, code_str |-> "", var_dict |-> var_dict, code |-> code]

\* a lookup that never sees the generations of the call
current_generation_initial(var_dict, name) == 0

\* var_dict.get(name, 0)
current_generation(var_dict, name) ==
    IF InDict(var_dict, name) THEN DictGet(var_dict, name) ELSE 0

\* a set that leaves the generation of a known variable as it is
next_generation_stuck(var_dict, name) ==
    IF InDict(var_dict, name) THEN var_dict ELSE DictSet(var_dict, name, 1)

\* the generation update of a set node
next_generation(var_dict, name) ==
    IF InDict(var_dict, name)
    THEN DictSet(var_dict, name, DictGet(var_dict, name) + 1)
    ELSE DictSet(var_dict, name, 1)

RECURSIVE compile_ast(_, _, _)

\* a get that requires a generation of the variable, as the Calculator requires
\* a binding
compile_get_strict(children, var_dict, code) ==
    LET name == get_value(children[1]).str
    IN IF InDict(var_dict, name)
       THEN Return(make_gen_name(name, DictGet(var_dict, name)), var_dict, code)
       ELSE Raise("ValueError", "variable '" \o name \o "' has no value yet", var_dict, code)

compile_get(children, var_dict, code) ==
    LET name == get_value(children[1]).str
        gen_num == current_generation(var_dict, name)
    IN Return(make_gen_name(name, gen_num), var_dict, code)

\* a set that hands back the rendering of its expression, not the name of
\* the generation
compile_set_inline(children, var_dict, code) ==
    LET name == get_value(children[1]).str
        const_num == compile_ast(children[2], var_dict, code)
    IN IF const_num.exc # "" THEN const_num
       ELSE LET var_dict2 == next_generation(const_num.var_dict, name)
                code_str == "_" \o name \o "_" \o ToString(DictGet(var_dict2, name))
            IN Return(const_num.code_str, var_dict2,
                      Append(const_num.code, code_str \o " = " \o const_num.code_str))

compile_set(children, var_dict, code) ==
    LET name == get_value(children[1]).str
        const_num == compile_ast(children[2], var_dict, code)
    IN IF const_num.exc # "" THEN const_num
       ELSE LET var_dict2 == next_generation(const_num.var_dict, name)
                code_str == "_" \o name \o "_" \o ToString(DictGet(var_dict2, name))
            IN Return(code_str, var_dict2,
                      Append(const_num.code, code_str \o " = " \o const_num.code_str))

\* neg (before == "(-", after == ")") and sqr (before == "(", after == " ** 2)")
compile_unary(children, var_dict, code, before, after) ==
    IF Len(children) < 2 THEN Raise("IndexError", "list index out of range", var_dict, code)
    ELSE LET temp_value == compile_ast(children[2], var_dict, code)
         IN IF temp_value.exc # "" THEN temp_value
            ELSE Return(before \o temp_value.code_str \o after,
                        temp_value.var_dict, temp_value.code)

\* the second operand compiled before the first
compile_operator_right_first(children, var_dict, code) ==
    LET operator == get_value(children[1]).str
    IN IF Len(children) < 3
       THEN Raise("IndexError", "list index out of range", var_dict, code)
       ELSE LET digit_2 == compile_ast(children[3], var_dict, code)
            IN IF digit_2.exc # "" THEN digit_2
               ELSE LET digit_1 == compile_ast(children[2], digit_2.var_dict, digit_2.code)
                    IN IF digit_1.exc # "" THEN digit_1
                       ELSE Return("(" \o digit_1.code_str \o " " \o operator \o " "
                                       \o digit_2.code_str \o ")",
                                   digit_1.var_dict, digit_1.code)

\* every other apply node
compile_operator(children, var_dict, code) ==
    LET operator == get_value(children[1]).str
    IN IF Len(children) < 2
       THEN Raise("IndexError", "list index out of range", var_dict, code)
       ELSE LET digit_1 == compile_ast(children[2], var_dict, code)
            IN IF digit_1.exc # "" THEN digit_1
               ELSE IF Len(children) < 3
               THEN Raise("IndexError", "list index out of range",
                          digit_1.var_dict, digit_1.code)
               ELSE LET digit_2 == compile_ast(children[3], digit_1.var_dict, digit_1.code)
                    IN IF digit_2.exc # "" THEN digit_2
                       ELSE Return("(" \o digit_1.code_str \o " " \o operator \o " "
                                       \o digit_2.code_str \o ")",
                                   digit_2.var_dict, digit_2.code)

compile_ast(ast, var_dict, code) ==
    LET ntype == get_value(ast)
        children == get_children(ast)
    IN IF ntype = N_CONST THEN Return(str(get_value(children[1])), var_dict, code)
       ELSE IF ntype = N_GET THEN compile_get(children, var_dict, code)
       ELSE IF ntype = N_SET THEN compile_set(children, var_dict, code)
       ELSE IF ntype = N_APPLY THEN
            IF get_value(children[1]) = StrVal("neg")
            THEN compile_unary(children, var_dict, code, "(-", ")")
            ELSE IF get_value(children[1]) = StrVal("sqr")
            THEN compile_unary(children, var_dict, code, "(", " ** 2)")
            ELSE compile_operator(children, var_dict, code)
       ELSE Raise("ValueError",
                  "Evaluation internal error, AST node type '" \o str(ntype)
                      \o "' not implemented",
                  var_dict, code)

\* The tree as compile_ast leaves it.  compile_ast reads the value and the
\* children of the nodes it visits (get_value, get_children, children[i]) and
\* assigns to none of them.
RECURSIVE compile_ast_tree(_)
compile_ast_tree(ast) ==
    LET ntype == get_value(ast)
        children == get_children(ast)
        operands == IF ntype = N_SET THEN {2}
                    ELSE IF ntype # N_APPLY THEN {}
                    ELSE IF get_value(children[1]) \in {StrVal("neg"), StrVal("sqr")}
                    THEN {2} \cap DOMAIN children
                    ELSE {2, 3} \cap DOMAIN children
    IN ValueTree(ntype, [i \in DOMAIN children |->
                            IF i \in operands THEN compile_ast_tree(children[i])
                            ELSE children[i]])

\* key_fn of the cleanup loop, applied to the name of an item
key_fn(name) == IF SubSeq(name, 1, 1) # "_" THEN "_" \o name ELSE name

\* a loop over the items in the order of their insertion
sorted_insertion(names) == names

\* sorted(names, key=key_fn): stable
RECURSIVE sorted(_)
sorted(names) ==
    IF Len(names) = 0 THEN <<>>
    ELSE LET rest == sorted(SubSeq(names, 1, Len(names) - 1))
             last == names[Len(names)]
             \* last goes after every element whose key is not greater
             n == Cardinality({i \in 1..Len(rest) :
                                 ~str_lt(key_fn(last), key_fn(rest[i]))})
         IN SubSeq(rest, 1, n) \o <<last>> \o SubSeq(rest, n + 1, Len(rest))

\* a cleanup that does not delete the last generation
cleanup_of_short(v, gen) ==
    IF gen > 0
    THEN <<"# Update and cleanup " \o v, v \o " = " \o make_gen_name(v, gen)>>
         \o [g \in 1..(gen - 1) |-> "del(" \o make_gen_name(v, g) \o ")"]
    ELSE <<>>

\* the statements that update v and delete its generations 1..gen
cleanup_of(v, gen) ==
    IF gen > 0
    THEN <<"# Update and cleanup " \o v, v \o " = " \o make_gen_name(v, gen)>>
         \o [g \in 1..gen |-> "del(" \o make_gen_name(v, g) \o ")"]
    ELSE <<>>

\* the cleanup loop over the sorted items of var_dict
RECURSIVE cleanup(_, _)
cleanup(names, var_dict) ==
    IF Len(names) = 0 THEN <<>>
    ELSE cleanup_of(Head(names), DictGet(var_dict, Head(names)))
         \o cleanup(Tail(names), var_dict)

\* code[:] = code[0:initial_code_len]
rollback(code, initial_code_len) ==
    IF Len(code) > initial_code_len THEN SubSeq(code, 1, initial_code_len) ELSE code

\* what compile hands back: None, a str, the ValueError it caught,
\* or (kind "raise") the exception that leaves compile
None == [kind |-> "None", msg |-> ""]
Returned(kind, msg) == [kind |-> kind, msg |-> msg]

\* parse yields no None tree for the inputs of a session: the empty input
\* parses to a pass tree
IsNone(ast) == FALSE

\* a compile whose generation map outlives the call: a later call on the
\* buffer starts with x at generation 1
compile_stale(parsed, code) ==
    IF Len(parsed.errors) > 0
    THEN [ret |-> Returned("str", "Parsing generated errors:\n" \o join("\n", parsed.errors)),
          code |-> code]
    ELSE IF IsNone(parsed.ast) THEN [ret |-> None, code |-> code]
    ELSE LET initial_code_len == Len(code)
             code1 == code \o <<"# code for:", "# " \o parsed.expr_str>>
             last_expr == compile_ast(parsed.ast,
                                      IF Len(code) > 0 THEN DictSet(EmptyDict, "x", 1)
                                      ELSE EmptyDict,
                                      code1)
         IN IF last_expr.exc = "ValueError"
            THEN [ret |-> Returned("ValueError", last_expr.msg),
                  code |-> rollback(last_expr.code, initial_code_len)]
            ELSE IF last_expr.exc # ""
            THEN [ret |-> Returned("raise", last_expr.exc), code |-> last_expr.code]
            ELSE [ret |-> None,
                  code |-> Append(last_expr.code, "_result = " \o last_expr.code_str)
                           \o cleanup(sorted(last_expr.var_dict.keys), last_expr.var_dict)]

compile(parsed, code) ==
    IF Len(parsed.errors) > 0
    THEN [ret |-> Returned("str", "Parsing generated errors:\n" \o join("\n", parsed.errors)),
          code |-> code]
    ELSE IF IsNone(parsed.ast) THEN [ret |-> None, code |-> code]
    ELSE LET initial_code_len == Len(code)
             code1 == code \o <<"# code for:", "# " \o parsed.expr_str>>
             last_expr == compile_ast(parsed.ast, EmptyDict, code1)
         IN IF last_expr.exc = "ValueError"
            THEN [ret |-> Returned("ValueError", last_expr.msg),
                  code |-> rollback(last_expr.code, initial_code_len)]
            ELSE IF last_expr.exc # ""
            THEN [ret |-> Returned("raise", last_expr.exc), code |-> last_expr.code]
            ELSE [ret |-> None,
                  code |-> Append(last_expr.code, "_result = " \o last_expr.code_str)
                           \o cleanup(sorted(last_expr.var_dict.keys), last_expr.var_dict)]

(***************************************************************************)
(* calculator.py.  A number is a fraction [num, den] in lowest terms with  *)
(* den > 0: Python's int n is n/1, and x / y is the exact quotient (the    *)
(* rounding of float is not modelled).                                     *)
(***************************************************************************)
Abs(n) == IF n < 0 THEN -n ELSE n

RECURSIVE Gcd(_, _)
Gcd(a, b) == IF b = 0 THEN a ELSE Gcd(b, a % b)

Number_(n, d) ==
    LET g == Gcd(Abs(n), Abs(d))
        sgn == IF d < 0 THEN -1 ELSE 1
    IN [num |-> sgn * (n \div g), den |-> sgn * (d \div g)]

FromInt(n) == [num |-> n, den |-> 1]

\* -x, x + y, x - y, x * y on numbers
neg(x) == Number_(-x.num, x.den)
add(x, y) == Number_(x.num * y.den + y.num * x.den, x.den * y.den)
sub(x, y) == Number_(x.num * y.den - y.num * x.den, x.den * y.den)
mul(x, y) == Number_(x.num * y.num, x.den * y.den)

\* x / y for y # 0
truediv(x, y) == Number_(x.num * y.den, x.den * y.num)

\* x ** n for an int n >= 0
RECURSIVE pow(_, _)
pow(x, n) == IF n = 0 THEN FromInt(1) ELSE mul(x, pow(x, n - 1))

\* how an evaluation ends: it returns value, or it raises exc
Value(value, var_dict) == [exc |-> "", msg |-> "", value |-> value, var_dict |-> var_dict]

Error(exc, msg, var_dict) ==
    [exc |-> exc, msg |-> msg, value |-> FromInt(0), var_dict |-> var_dict]

\* op_to_fn: the operators with a function, and '?' that maps to None
op_to_fn_keys == {"neg", "+", "-", "*", "/", "sqr", "?"}

has_fn(op) == op \in op_to_fn_keys /\ op # "?"

\* the number of parameters of the lambda of op
arity(op) == IF op \in {"neg", "sqr"} THEN 1 ELSE 2

\* fn(*args) for fn = op_to_fn[op]
op_to_fn(op, args, var_dict) ==
    IF Len(args) # arity(op)
    THEN Error("TypeError", "<lambda>() takes " \o ToString(arity(op))
                            \o " positional arguments", var_dict)
    ELSE LET x == args[1]
             y == args[Len(args)]
         IN CASE op = "neg" -> Value(neg(x), var_dict)
              [] op = "+" -> Value(add(x, y), var_dict)
              [] op = "-" -> Value(sub(x, y), var_dict)
              [] op = "*" -> Value(mul(x, y), var_dict)
              [] op = "/" -> IF y.num = 0
                             THEN Error("ZeroDivisionError", "division by zero", var_dict)
                             ELSE Value(truediv(x, y), var_dict)
              [] op = "sqr" -> Value(mul(x, x), var_dict)

RECURSIVE evaluate_ast(_, _)

\* args = [ self.evaluate_ast(c, var_dict) for c in children[1:] ], from
\* child i on; the values so far are args
RECURSIVE evaluate_args(_, _, _, _)
evaluate_args(children, i, args, var_dict) ==
    IF i > Len(children) THEN [exc |-> "", msg |-> "", args |-> args, var_dict |-> var_dict]
    ELSE LET r == evaluate_ast(children[i], var_dict)
         IN IF r.exc # ""
            THEN [exc |-> r.exc, msg |-> r.msg, args |-> args, var_dict |-> r.var_dict]
            ELSE evaluate_args(children, i + 1, Append(args, r.value), r.var_dict)

\* an apply that looks for the function after it evaluated the arguments
evaluate_apply_args_first(children, var_dict) ==
    LET op == get_value(children[1]).str
        a == evaluate_args(children, 2, <<>>, var_dict)
    IN IF a.exc # "" THEN Error(a.exc, a.msg, a.var_dict)
       ELSE IF ~has_fn(op)
       THEN Error("ValueError",
                  "Evaluation error, no implementation of operation '" \o op \o "'",
                  a.var_dict)
       ELSE op_to_fn(op, a.args, a.var_dict)

\* an apply that restores the bindings when an argument fails
evaluate_apply_rollback(children, var_dict) ==
    LET op == get_value(children[1]).str
    IN IF ~has_fn(op)
       THEN Error("ValueError",
                  "Evaluation error, no implementation of operation '" \o op \o "'",
                  var_dict)
       ELSE LET a == evaluate_args(children, 2, <<>>, var_dict)
            IN IF a.exc # "" THEN Error(a.exc, a.msg, var_dict)
               ELSE op_to_fn(op, a.args, a.var_dict)

evaluate_apply(children, var_dict) ==
    LET op == get_value(children[1]).str
    IN IF ~has_fn(op)
       THEN Error("ValueError",
                  "Evaluation error, no implementation of operation '" \o op \o "'",
                  var_dict)
       ELSE LET a == evaluate_args(children, 2, <<>>, var_dict)
            IN IF a.exc # "" THEN Error(a.exc, a.msg, a.var_dict)
               ELSE op_to_fn(op, a.args, a.var_dict)

evaluate_set(children, var_dict) ==
    LET name == get_value(children[1]).str
        r == evaluate_ast(children[2], var_dict)
    IN IF r.exc # "" THEN r
       ELSE Value(r.value, DictSet(r.var_dict, name, r.value))

evaluate_get(children, var_dict) ==
    LET name == get_value(children[1]).str
    IN IF ~InDict(var_dict, name)
       THEN Error("ValueError",
                  "Evaluation error, variable '" \o name \o "' has no value yet",
                  var_dict)
       ELSE Value(DictGet(var_dict, name), var_dict)

evaluate_ast(ast, var_dict) ==
    LET ntype == get_value(ast)
        children == get_children(ast)
    IN IF ntype = N_CONST THEN Value(FromInt(get_value(children[1]).int), var_dict)
       ELSE IF ntype = N_APPLY THEN evaluate_apply(children, var_dict)
       ELSE IF ntype = N_SET THEN evaluate_set(children, var_dict)
       ELSE IF ntype = N_GET THEN evaluate_get(children, var_dict)
       ELSE Error("ValueError",
                  "Evaluation internal error, AST node type '" \o str(ntype)
                      \o "' not implemented",
                  var_dict)

\* What one call of evaluate_ast does, in order: <<"visit", path>> for each
\* call of evaluate_ast, path the child indices from the root to the node,
\* and <<"write", path, name>> for each var_dict[name] = value of a set node.
RECURSIVE evaluate_ast_events(_, _, _)

\* the list comprehension over children[1:], from child i on
RECURSIVE evaluate_args_events(_, _, _, _)
evaluate_args_events(children, i, var_dict, path) ==
    IF i > Len(children) THEN <<>>
    ELSE LET r == evaluate_ast(children[i], var_dict)
         IN evaluate_ast_events(children[i], var_dict, Append(path, i))
            \o (IF r.exc # "" THEN <<>>
                ELSE evaluate_args_events(children, i + 1, r.var_dict, path))

\* a set node that binds its name before it evaluates its expression
evaluate_set_events_early(children, var_dict, path) ==
    <<<<"write", path, get_value(children[1]).str>>>>
    \o evaluate_ast_events(children[2], var_dict, Append(path, 2))

evaluate_set_events(children, var_dict, path) ==
    evaluate_ast_events(children[2], var_dict, Append(path, 2))
    \o (IF evaluate_ast(children[2], var_dict).exc # "" THEN <<>>
        ELSE <<<<"write", path, get_value(children[1]).str>>>>)

evaluate_ast_events(ast, var_dict, path) ==
    LET ntype == get_value(ast)
        children == get_children(ast)
    IN <<<<"visit", path>>>>
       \o (IF ntype = N_APPLY /\ has_fn(get_value(children[1]).str)
           THEN evaluate_args_events(children, 2, var_dict, path)
           ELSE IF ntype = N_SET THEN evaluate_set_events(children, var_dict, path)
           ELSE <<>>)

\* Calculator.evaluate on what parse returned for the text
\* an evaluation that takes the operator off the child list of an apply node
evaluate_ast_tree_consuming(ast) ==
    IF get_value(ast) = N_APPLY
    THEN ValueTree(N_APPLY, Tail(get_children(ast)))
    ELSE ast

\* The tree as evaluate_ast leaves it.  evaluate_ast reads the value and the
\* children of the nodes it visits (children[1:] is a new list) and assigns
\* to none of them.
RECURSIVE evaluate_ast_tree(_)
evaluate_ast_tree(ast) ==
    LET ntype == get_value(ast)
        children == get_children(ast)
        operands == IF ntype = N_SET THEN {2}
                    ELSE IF ntype = N_APPLY /\ has_fn(get_value(children[1]).str)
                    THEN DOMAIN children \ {1}
                    ELSE {}
    IN ValueTree(ntype, [i \in DOMAIN children |->
                            IF i \in operands THEN evaluate_ast_tree(children[i])
                            ELSE children[i]])

\* an evaluate that walks the tree whatever the diagnostics
evaluate_ungated(parsed, var_dict) == evaluate_ast(parsed.ast, var_dict)

evaluate(parsed, var_dict) ==
    IF Len(parsed.errors) > 0
    THEN Error("ValueError", "Parsing generated errors:\n" \o join("\n", parsed.errors),
               var_dict)
    ELSE evaluate_ast(parsed.ast, var_dict)

(***************************************************************************)
(* comptest.py: exec(program, globals, locals).  Python compiles the whole *)
(* program before it runs its first statement, so a SyntaxError runs       *)
(* nothing.  The statements understood are those compile emits and the     *)
(* print main appends: a comment, NAME = expression, del(NAME),            *)
(* print(NAME); an expression is a number, a name, (-e) or (e op e).       *)
(* globals is empty and no name of the program is a built-in, so a name is *)
(* looked up in locals only.                                               *)
(***************************************************************************)
Keywords ==
    {"False", "None", "True", "and", "as", "assert", "async", "await", "break",
     "class", "continue", "def", "del", "elif", "else", "except", "finally",
     "for", "from", "global", "if", "import", "in", "is", "lambda", "nonlocal",
     "not", "or", "pass", "raise", "return", "try", "while", "with", "yield"}

BinaryOperators == {"+", "-", "*", "/", "**"}

\* s is an identifier of Python
IsIdentifier(s) ==
    /\ Len(s) > 0
    /\ IsNameStart(SubSeq(s, 1, 1))
    /\ EndOfName(s, 1) = Len(s) + 1
    /\ s \notin Keywords

\* a node of the syntax tree of the program
Node(kind, text, args) == [ok |-> TRUE, kind |-> kind, text |-> text, args |-> args]

\* the expression that ends before position next
Expression(node, next) == [ok |-> TRUE, node |-> node, next |-> next]

SyntaxError == [ok |-> FALSE, kind |-> "", text |-> "", args |-> <<>>]

NoExpression == [ok |-> FALSE, node |-> SyntaxError, next |-> 0]

\* the expression of line that starts at position i
RECURSIVE py_expression(_, _)
py_expression(line, i) ==
    LET c == At(line, i)
    IN IF IsDigit(c)
       THEN LET j == EndOfNumber(line, i)
            IN IF IsNameChar(At(line, j)) THEN NoExpression
               ELSE Expression(Node("num", SubSeq(line, i, j - 1), <<>>), j)
       ELSE IF c # "" /\ IsNameStart(c)
       THEN LET j == EndOfName(line, i)
                id == SubSeq(line, i, j - 1)
            IN IF id \in Keywords THEN NoExpression
               ELSE Expression(Node("name", id, <<>>), j)
       ELSE IF c = "(" /\ At(line, i + 1) = "-"
       THEN LET a == py_expression(line, i + 2)
            IN IF a.ok /\ At(line, a.next) = ")"
               THEN Expression(Node("neg", "-", <<a.node>>), a.next + 1)
               ELSE NoExpression
       ELSE IF c = "("
       THEN LET a == py_expression(line, i + 1)
            IN IF ~a.ok \/ At(line, a.next) # " " THEN NoExpression
               ELSE LET j == Find(line, " ", a.next + 1)
                        op == SubSeq(line, a.next + 1, j - 1)
                    IN IF op \notin BinaryOperators THEN NoExpression
                       ELSE LET b == py_expression(line, j + 1)
                            IN IF b.ok /\ At(line, b.next) = ")"
                               THEN Expression(Node("binop", op, <<a.node, b.node>>),
                                               b.next + 1)
                               ELSE NoExpression
       ELSE NoExpression

\* the statement of one line of the program
py_statement(line) ==
    IF StartsWith(line, "#") THEN Node("comment", line, <<>>)
    ELSE IF StartsWith(line, "print(") /\ At(line, Len(line)) = ")"
            /\ IsIdentifier(SubSeq(line, 7, Len(line) - 1))
    THEN Node("print", SubSeq(line, 7, Len(line) - 1), <<>>)
    ELSE IF StartsWith(line, "del(") /\ At(line, Len(line)) = ")"
            /\ IsIdentifier(SubSeq(line, 5, Len(line) - 1))
    THEN Node("del", SubSeq(line, 5, Len(line) - 1), <<>>)
    ELSE LET target == Target(line)
             value == py_expression(line, Len(target) + 4)
         IN IF IsIdentifier(target) /\ value.ok /\ value.next = Len(line) + 1
            THEN Node("assign", target, <<value.node>>)
            ELSE SyntaxError

NameError(name, env) == Error("NameError", "name '" \o name \o "' is not defined", env)

\* the value of an expression in the context env
RECURSIVE py_eval(_, _)
py_eval(node, env) ==
    IF node.kind = "num" THEN Value(FromInt(int(node.text)), env)
    ELSE IF node.kind = "name"
    THEN IF InDict(env, node.text) THEN Value(DictGet(env, node.text), env)
         ELSE NameError(node.text, env)
    ELSE LET x == py_eval(node.args[1], env)
         IN IF x.exc # "" THEN x
            ELSE IF node.kind = "neg" THEN Value(neg(x.value), env)
            ELSE LET y == py_eval(node.args[2], env)
                 IN IF y.exc # "" THEN y
                    ELSE CASE node.text = "+" -> Value(add(x.value, y.value), env)
                           [] node.text = "-" -> Value(sub(x.value, y.value), env)
                           [] node.text = "*" -> Value(mul(x.value, y.value), env)
                           [] node.text = "/" ->
                                IF y.value.num = 0
                                THEN Error("ZeroDivisionError", "division by zero", env)
                                ELSE Value(truediv(x.value, y.value), env)
                           \* the only exponent compile emits is the int 2
                           [] node.text = "**" -> Value(pow(x.value, y.value.num), env)

\* the statements from position i on, run in the context env
RECURSIVE py_run(_, _, _)
py_run(stmts, i, env) ==
    IF i > Len(stmts) THEN [exc |-> "", msg |-> "", env |-> env]
    ELSE LET stmt == stmts[i]
         IN IF stmt.kind = "comment" THEN py_run(stmts, i + 1, env)
            ELSE IF stmt.kind = "print"
            THEN IF InDict(env, stmt.text) THEN py_run(stmts, i + 1, env)
                 ELSE [exc |-> "NameError", msg |-> stmt.text, env |-> env]
            ELSE IF stmt.kind = "del"
            THEN IF InDict(env, stmt.text) THEN py_run(stmts, i + 1, DictDel(env, stmt.text))
                 ELSE [exc |-> "NameError", msg |-> stmt.text, env |-> env]
            ELSE LET r == py_eval(stmt.args[1], env)
                 IN IF r.exc # "" THEN [exc |-> r.exc, msg |-> r.msg, env |-> env]
                    ELSE py_run(stmts, i + 1, DictSet(env, stmt.text, r.value))

\* exec(program, globals, locals)
exec(program, env) ==
    LET lines == split(program)
        stmts == [i \in 1..Len(lines) |-> py_statement(lines[i])]
    IN IF \E i \in 1..Len(stmts) : ~stmts[i].ok
       THEN [exc |-> "SyntaxError", msg |-> "invalid syntax", env |-> env]
       ELSE py_run(stmts, 1, env)


(***************************************************************************)
(* Sessions.  A caller types expressions; the parser reduces the text      *)
(* bottom-up: stack holds the expressions recognised so far, each with its *)
(* text, every compound operand written in parentheses                     *)
(* (p_expression_group).                                                   *)
(*                                                                         *)
(* Spec is a session of do_test calls that compile into one buffer.        *)
(* SpecRun is a session of comptest.main: each line is compiled into a     *)
(* fresh buffer and the program is executed in locals, which lives on from *)
(* line to line; before the execution the Calculator evaluates the same    *)
(* line against a binding store equal to locals, as the reference the      *)
(* compiled program "should return the same value as".  Unlike main, which  *)
(* quits on a blank line, the session hands the empty input to compile and *)
(* evaluate as any other caller of the two may.                            *)
(***************************************************************************)
VARIABLES
    stack,         \* the parser's stack: the expressions recognised so far
    code,          \* the caller's statement buffer
    code_before,   \* the buffer as it was when the last call of compile began
    input,         \* the input of the last call: expr_str and what parse returned
    ret,           \* what the last call of compile returned
    nodes_used,    \* nodes of all expressions typed so far
    pc,            \* main: "read", "compiled" or "evaluated"
    locals,        \* main: the context the programs are executed in
    calc,          \* how Calculator.evaluate ended on the last line
    exec_error,    \* how exec ended on the last program
    tree,          \* the tree of the last line as the calls on it left it
    error_stack,   \* exprparser.error_stack, the list every parser appends to
    errors,        \* per caller of parse: the diagnostics list it was handed
    unparsed       \* how the last call of unparse ended

vars == <<stack, code, code_before, input, ret, nodes_used, pc, locals, calc, exec_error,
          tree, error_stack, errors, unparsed>>

\* the alphabet of the expressions compiled in a session of do_test
CompileAlphabet ==
    [names |-> {"x", "y"}, numbers |-> {1}, binops |-> {"+"}, fns |-> {"f", "sqr"},
     seps |-> {" "}, nodes |-> MaxNodes]

\* the alphabet of the expressions compiled and run in a session of main
RunAlphabet ==
    [names |-> {"x", "_x_1", "_result"}, numbers |-> {0, 1},
     binops |-> {"+", "-", "*", "/"}, fns |-> {"sqr"}, seps |-> {" "},
     nodes |-> MaxRunNodes]

\* the alphabet of a session of do_test whose names are prefixes of one
\* another or differ by a leading underscore
SortAlphabet ==
    [names |-> {"x", "x1", "_x"}, numbers |-> {1}, binops |-> {"+"}, fns |-> {"sqr"},
     seps |-> {" "}, nodes |-> MaxSortNodes]

\* the alphabet of a session of do_test whose inputs separate tokens by a
\* blank or by a newline (t_ignore and t_newline)
LineAlphabet ==
    [names |-> {"x"}, numbers |-> {1}, binops |-> {"+"}, fns |-> {"sqr"},
     seps |-> {" ", "\n"}, nodes |-> MaxLineNodes]

\* the alphabet of a session of calculator.main: f has no implementation
CalcAlphabet ==
    [names |-> {"x"}, numbers |-> {0, 1}, binops |-> {"+"}, fns |-> {"f"},
     seps |-> {" "}, nodes |-> MaxCalcNodes]

NoCall == [kind |-> "no call", msg |-> ""]

NotEvaluated == Error("not evaluated", "", EmptyDict)

NotRun == "not run"

\* the alphabet of the expressions parsed in a session of two parsers
ParseAlphabet ==
    [names |-> {"x"}, numbers |-> {1}, binops |-> {"+"}, fns |-> {"f"},
     seps |-> {" "}, nodes |-> MaxParseNodes]

\* the owners of the two ExprParser instances
Parsers == {"compiler", "calculator"}

\* a caller that holds no diagnostics list
NoErrors == [returned |-> FALSE, at_return |-> <<>>]

NotUnparsed == [exc |-> "not called", text |-> "", ast |-> p_statement_empty]

Init ==
    /\ stack = <<>>
    /\ code = <<>>
    /\ code_before = <<>>
    /\ input = EmptyInput
    /\ ret = NoCall
    /\ nodes_used = 0
    /\ pc = "read"
    /\ locals = EmptyDict
    /\ calc = NotEvaluated
    /\ exec_error = NotRun
    /\ tree = p_statement_empty
    /\ error_stack = <<>>
    /\ errors = [p \in Parsers |-> NoErrors]
    /\ unparsed = NotUnparsed

\* an exception that leaves compile ends the caller
Running == ret.kind # "raise"

\* one more node fits, and the stack it leaves can still be reduced to one
\* expression
Fits(A, stack2) ==
    nodes_used + 1 + (IF Len(stack2) > 1 THEN 1 ELSE 0) <= A.nodes

Reduce(A, stack2) ==
    /\ Running
    /\ pc = "read"
    /\ Fits(A, stack2)
    /\ stack' = stack2
    /\ nodes_used' = nodes_used + 1
    /\ UNCHANGED <<code, code_before, input, ret, pc, locals, calc, exec_error, tree,
                   error_stack, errors, unparsed>>

Top(k) == SubSeq(stack, Len(stack) - k + 1, Len(stack))
Below(k) == SubSeq(stack, 1, Len(stack) - k)

Number(A) ==
    \E n \in A.numbers :
        Reduce(A, Append(stack, Parsed(ToString(n), p_expression_number(n))))

Name(A) ==
    \E v \in A.names : Reduce(A, Append(stack, Parsed(v, p_expression_name(v))))

FnApply0(A) ==
    \E f \in A.fns : Reduce(A, Append(stack, Parsed(f \o "()", p_fn_apply_0(f))))

Assign(A) ==
    \E v \in A.names, sep \in A.seps :
        /\ Len(stack) >= 1
        /\ LET e == Top(1)[1]
           IN Reduce(A, Append(Below(1), Parsed("(" \o v \o sep \o "= " \o e.expr_str \o ")",
                                                p_expression_assign(v, e.ast))))

Uminus(A) ==
    /\ Len(stack) >= 1
    /\ LET e == Top(1)[1]
       IN Reduce(A, Append(Below(1), Parsed("(-" \o e.expr_str \o ")",
                                            p_expression_uminus(e.ast))))

Binop(A) ==
    \E op \in A.binops :
        /\ Len(stack) >= 2
        /\ LET a == Top(2)[1]
               b == Top(2)[2]
           IN Reduce(A, Append(Below(2),
                               Parsed("(" \o a.expr_str \o " " \o op \o " " \o b.expr_str \o ")",
                                      p_expression_binop(a.ast, op, b.ast))))

FnApply(A) ==
    \E f \in A.fns : \E k \in 1..Len(stack) :
        LET args == expr_list(Top(k))
        IN Reduce(A, Append(Below(k), Parsed(f \o "(" \o args.expr_str \o ")",
                                             p_fn_apply(f, args.ast))))

\* what parse returns for the text typed: the expression on the stack, or,
\* when nothing was recognised, the results of the empty and the malformed inputs
ParseResults(A) ==
    IF Len(stack) = 1 THEN {ParseResult(stack[1].expr_str, <<>>, stack[1].ast)}
    ELSE IF Len(stack) = 0 /\ nodes_used < A.nodes THEN {EmptyInput} \cup BadInputs
    ELSE {}

\* do_test: error = comp.compile(expr, code), code the buffer of the session
CompileWith(A) ==
    /\ Running
    /\ \E parsed \in ParseResults(A) :
        /\ LET r == compile(parsed, code)
           IN /\ code' = r.code
              /\ ret' = r.ret
        /\ input' = parsed
        /\ tree' = IF Len(parsed.errors) > 0 THEN parsed.ast ELSE compile_ast_tree(parsed.ast)
        /\ error_stack' = parsed.errors
        /\ nodes_used' = nodes_used + (IF Len(stack) = 0 THEN 1 ELSE 0)
    /\ code_before' = code
    /\ stack' = <<>>
    /\ UNCHANGED <<pc, locals, calc, exec_error, errors, unparsed>>

Compile == CompileWith(CompileAlphabet)

\* main: compiled_code = [] ; error = comp.compile(s, compiled_code)
MainCompile ==
    /\ Running
    /\ pc = "read"
    /\ \E parsed \in ParseResults(RunAlphabet) :
        /\ LET r == compile(parsed, <<>>)
           IN /\ code' = r.code
              /\ ret' = r.ret
              /\ pc' = "compiled"
        /\ input' = parsed
        /\ tree' = IF Len(parsed.errors) > 0 THEN parsed.ast ELSE compile_ast_tree(parsed.ast)
        /\ error_stack' = parsed.errors
        /\ nodes_used' = nodes_used + (IF Len(stack) = 0 THEN 1 ELSE 0)
    /\ code_before' = <<>>
    /\ stack' = <<>>
    /\ calc' = NotEvaluated
    /\ exec_error' = NotRun
    /\ UNCHANGED <<locals, errors, unparsed>>

\* the reference: Calculator.evaluate of the line against a binding store
\* equal to the execution context, as calculator.main evaluates every line
Evaluate ==
    /\ pc = "compiled"
    /\ calc' = evaluate(input, locals)
    /\ tree' = IF Len(input.errors) > 0 THEN tree ELSE evaluate_ast_tree(tree)
    /\ error_stack' = input.errors
    /\ pc' = "evaluated"
    /\ UNCHANGED <<stack, code, code_before, input, ret, nodes_used, locals, exec_error,
                   errors, unparsed>>

\* main: compiled_code.append("print(_result)") ; exec(program, globals, locals)
Execute ==
    /\ pc = "evaluated"
    /\ ret = None
    /\ LET compiled_code == Append(code, "print(_result)")
           program == join("\n", compiled_code)
           r == exec(program, locals)
       IN /\ locals' = r.env
          /\ exec_error' = r.exc
          /\ code' = compiled_code
    /\ pc' = "read"
    /\ UNCHANGED <<stack, code_before, input, ret, nodes_used, calc, tree,
                   error_stack, errors, unparsed>>

\* main: if error: print("Compilation Error: ...") ; continue
Continue ==
    /\ pc = "evaluated"
    /\ Running
    /\ ret # None
    /\ pc' = "read"
    /\ UNCHANGED <<stack, code, code_before, input, ret, nodes_used, locals, calc, exec_error,
                   tree, error_stack, errors, unparsed>>

Parse(A) ==
    \/ Number(A)
    \/ Name(A)
    \/ FnApply0(A)
    \/ Assign(A)
    \/ Uminus(A)
    \/ Binop(A)
    \/ FnApply(A)

Next == Parse(CompileAlphabet) \/ Compile

Spec == Init /\ [][Next]_vars

NextSort == Parse(SortAlphabet) \/ CompileWith(SortAlphabet)

SpecSort == Init /\ [][NextSort]_vars

NextLines == Parse(LineAlphabet) \/ CompileWith(LineAlphabet)

SpecLines == Init /\ [][NextLines]_vars

\* (errors, ast) = parser.parse(text), by the owner p of a parser:
\* self.error_stack.clear(), the rules append their diagnostics to
\* error_stack, and the caller is handed error_stack itself
ParseBy(p) ==
    /\ \E parsed \in ParseResults(ParseAlphabet) :
        /\ error_stack' = parsed.errors
        /\ input' = parsed
        /\ tree' = parsed.ast
        /\ errors' = [errors EXCEPT ![p] = [returned |-> TRUE, at_return |-> parsed.errors]]
        /\ nodes_used' = nodes_used + (IF Len(stack) = 0 THEN 1 ELSE 0)
    /\ stack' = <<>>
    /\ unparsed' = NotUnparsed
    /\ UNCHANGED <<code, code_before, ret, pc, locals, calc, exec_error>>

\* parser.unparse(ast) on the tree of the last parse
Unparse ==
    /\ \E p \in Parsers : errors[p].returned
    /\ Len(stack) = 0
    /\ Len(input.errors) = 0
    /\ unparsed = NotUnparsed
    /\ unparsed' = unparse(tree)
    /\ UNCHANGED <<stack, code, code_before, input, ret, nodes_used, pc, locals, calc,
                   exec_error, tree, error_stack, errors>>

NextParse == Parse(ParseAlphabet) \/ (\E p \in Parsers : ParseBy(p)) \/ Unparse

SpecParse == Init /\ [][NextParse]_vars

\* calculator.main: result = calc.evaluate(s, var_dict), the persistent
\* var_dict of main held in locals; evaluate_ast writes into it, and what it
\* wrote before an exception stays
CalculatorLine ==
    /\ \E parsed \in ParseResults(CalcAlphabet) :
        /\ LET r == evaluate(parsed, locals)
           IN /\ calc' = r
              /\ locals' = r.var_dict
        /\ input' = parsed
        /\ tree' = IF Len(parsed.errors) > 0 THEN parsed.ast ELSE evaluate_ast_tree(parsed.ast)
        /\ error_stack' = parsed.errors
        /\ nodes_used' = nodes_used + (IF Len(stack) = 0 THEN 1 ELSE 0)
    /\ stack' = <<>>
    /\ UNCHANGED <<code, code_before, ret, pc, exec_error, errors, unparsed>>

NextCalc == Parse(CalcAlphabet) \/ CalculatorLine

SpecCalc == Init /\ [][NextCalc]_vars

NextRun == Parse(RunAlphabet) \/ MainCompile \/ Evaluate \/ Execute \/ Continue

SpecRun == Init /\ [][NextRun]_vars

(***************************************************************************)
(* Reading the buffer after a call of compile.                             *)
(***************************************************************************)
Called == ret.kind # "no call"

\* compile went past parsing: the input has no diagnostics
Parses == Called /\ Len(input.errors) = 0

Succeeded == Parses /\ ret = None

\* what the last call added to the buffer
Appended == SubSeq(code, Len(code_before) + 1, Len(code))

\* the position of the first statement of stmts from position i on that
\* binds _result, Len(stmts) + 1 if there is none
RECURSIVE ResultIndex(_, _)
ResultIndex(stmts, i) ==
    IF i > Len(stmts) THEN i
    ELSE IF StartsWith(stmts[i], "_result = ") THEN i
    ELSE ResultIndex(stmts, i + 1)

\* the statements between the two marker lines and the _result statement
Hoisted ==
    IF Len(Appended) < 2 THEN <<>>
    ELSE SubSeq(Appended, 3, ResultIndex(Appended, 3) - 1)

\* the statements after the _result statement
Cleanup == SubSeq(Appended, ResultIndex(Appended, 3) + 1, Len(Appended))

\* the name of generation k > 0 of v, as the documentation of compile_ast
\* writes it: _v_k
Temp(v, k) == "_" \o v \o "_" \o ToString(k)

\* the variables an expression of a session can name
Names == CompileAlphabet.names

\* the hoisted statements that assign a generation of v
HoistedFor(v) ==
    SelectSeq(Hoisted, LAMBDA stmt : \E k \in 1..(MaxNodes + 1) : Target(stmt) = Temp(v, k))

\* the set nodes of a tree that bind v
RECURSIVE CountSets(_, _)
RECURSIVE CountSetsIn(_, _)
CountSets(t, v) ==
    (IF t.value = N_SET /\ t.children[1].value = StrVal(v) THEN 1 ELSE 0)
    + CountSetsIn(t.children, v)

CountSetsIn(ts, v) ==
    IF Len(ts) = 0 THEN 0 ELSE CountSets(Head(ts), v) + CountSetsIn(Tail(ts), v)

\* the apply nodes of the tree all have the shape the grammar gives to
\* unary minus, sqr(e) and the binary operators
RECURSIVE Arithmetic(_)
Arithmetic(t) ==
    /\ t.value = N_APPLY =>
          \/ t.children[1].value \in {StrVal("neg"), StrVal("sqr")} /\ Len(t.children) = 2
          \/ t.children[1].value \in {StrVal("+"), StrVal("-"), StrVal("*"), StrVal("/")}
             /\ Len(t.children) = 3
    /\ \A i \in 1..Len(t.children) : Arithmetic(t.children[i])

\* some apply node of the tree names an operator without implementation
RECURSIVE UnknownOperator(_)
UnknownOperator(t) ==
    \/ t.value = N_APPLY /\ ~has_fn(t.children[1].value.str)
    \/ \E i \in 1..Len(t.children) : UnknownOperator(t.children[i])

\* C3: when compile does not succeed, the buffer is as it was before the call
C3_RollbackAtomicity ==
    (Called /\ ret # None) => code = code_before

\* C4: compile always ends by returning None or a diagnostic, never abnormally
C4_EveryFailureIsReturned ==
    Called => ret.kind \in {"None", "str", "ValueError"}

\* C5: a tree with an apply node whose operator has no implementation makes
\* compile return a diagnostic and leaves the buffer as before the call
C5_UnknownOperatorIsCompileError ==
    (Parses /\ UnknownOperator(input.ast)) =>
        /\ ret.kind \in {"str", "ValueError"}
        /\ code = code_before
\* no set node in the tree
RECURSIVE SetFree(_)
SetFree(t) ==
    /\ t.value # N_SET
    /\ \A i \in 1..Len(t.children) : SetFree(t.children[i])

\* the apply node applies a named function: neither neg, sqr nor a binary
\* arithmetic operator
NamedFunction(t) ==
    /\ t.value = N_APPLY
    /\ t.children[1].value.str \notin {"neg", "sqr", "+", "-", "*", "/"}

RECURSIVE HasNamedFunction(_)
HasNamedFunction(t) ==
    \/ NamedFunction(t)
    \/ \E i \in 1..Len(t.children) : HasNamedFunction(t.children[i])

\* neg and sqr have one argument wherever the tree applies them
RECURSIVE UnaryWellFormed(_)
UnaryWellFormed(t) ==
    /\ (t.value = N_APPLY /\ t.children[1].value.str \in {"neg", "sqr"})
          => Len(t.children) = 2
    /\ \A i \in 1..Len(t.children) : UnaryWellFormed(t.children[i])

\* The rendering the description of the compiler gives for a tree without
\* set nodes: a named function with arguments a1..an is name(r1,...,rn).
RECURSIVE Rendering(_)
RECURSIVE Renderings(_)
Rendering(t) ==
    LET op == t.children[1].value
    IN IF t.value = N_CONST THEN ToString(op.int)
       ELSE IF t.value = N_GET THEN op.str
       ELSE IF op.str = "neg" THEN "(-" \o Rendering(t.children[2]) \o ")"
       ELSE IF op.str = "sqr" THEN "(" \o Rendering(t.children[2]) \o " ** 2)"
       ELSE IF NamedFunction(t) THEN op.str \o "(" \o join(",", Renderings(Tail(t.children))) \o ")"
       ELSE "(" \o Rendering(t.children[2]) \o " " \o op.str \o " "
                \o Rendering(t.children[3]) \o ")"

Renderings(ts) ==
    IF Len(ts) = 0 THEN <<>> ELSE <<Rendering(Head(ts))>> \o Renderings(Tail(ts))

C7_GenerationMonotonicity ==
    Parses =>
        /\ \A v \in Names :
              /\ \A k \in 1..Len(HoistedFor(v)) : Target(HoistedFor(v)[k]) = Temp(v, k)
              /\ (Succeeded /\ Arithmetic(input.ast)) =>
                    Len(HoistedFor(v)) = CountSets(input.ast, v)
        /\ \A i \in 1..Len(Hoisted) :
              \E v \in Names : \E k \in 1..i : Target(Hoisted[i]) = Temp(v, k)

\* a call that hoisted three assignments of one variable
C7_Witness ==
    Succeeded /\ \E v \in Names : Len(HoistedFor(v)) >= 3
\* the tree reads v: it has a get node of v
RECURSIVE Reads(_, _)
Reads(t, v) ==
    \/ t.value = N_GET /\ t.children[1].value = StrVal(v)
    \/ \E i \in 1..Len(t.children) : Reads(t.children[i], v)

\* the generation v reached in the last call
Reached(v) == Len(HoistedFor(v))

Count(stmts, stmt) == Cardinality({j \in 1..Len(stmts) : stmts[j] = stmt})

\* C8: after a successful compile the statements after the _result statement
\* hold, for every v that reached generation g > 0, one assignment of bare v
\* from _v_g followed by the deletions of _v_1 .. _v_g, each once; nothing is
\* emitted for a variable that reached no generation, and a call that hoists
\* nothing appends the two marker lines and the _result statement only
C8_CleanupContent ==
    Succeeded =>
        /\ ResultIndex(Appended, 3) <= Len(Appended)
        /\ \A v \in Names :
              IF Reached(v) > 0
              THEN /\ \E i \in 1..Len(Cleanup) :
                        /\ Cleanup[i] = v \o " = " \o Temp(v, Reached(v))
                        /\ i + Reached(v) <= Len(Cleanup)
                        /\ \A k \in 1..Reached(v) :
                              Cleanup[i + k] = "del(" \o Temp(v, k) \o ")"
                   /\ Cardinality({j \in 1..Len(Cleanup) : Target(Cleanup[j]) = v}) = 1
                   /\ \A k \in 1..(MaxNodes + 1) :
                        Count(Cleanup, "del(" \o Temp(v, k) \o ")")
                            = (IF k <= Reached(v) THEN 1 ELSE 0)
              ELSE \A j \in 1..Len(Cleanup) :
                        /\ Target(Cleanup[j]) # v
                        /\ ~StartsWith(Cleanup[j], "del(_" \o v \o "_")
                        /\ Cleanup[j] # "# Update and cleanup " \o v
        /\ (\A v \in Names : Reached(v) = 0) =>
              /\ Len(Appended) = 3
              /\ Appended[1] = "# code for:"
              /\ Appended[2] = "# " \o input.expr_str
              /\ StartsWith(Appended[3], "_result = ")

\* a call that took one variable to generation 2 and only read another
C8_Witness ==
    /\ Succeeded
    /\ \E v \in Names : \E w \in Names :
          Reached(v) >= 2 /\ Reached(w) = 0 /\ Reads(input.ast, w)

\* the root of the tree is an apply node with at least two arguments
RootApply == Parses /\ input.ast.value = N_APPLY /\ Len(input.ast.children) >= 3

RootArg(i) == input.ast.children[i + 1]

\* the statements compile_ast emits for argument i of the root, compiled with
\* the generations var_dict
EmittedFor(i, var_dict) == compile_ast(RootArg(i), var_dict, <<>>)

\* C9: for an apply node with several arguments the statements emitted for
\* the first argument come first in the buffer and those of the second
\* argument follow them; for Apply op [Set a, Set b] the assignment of a
\* precedes the assignment of b
C9_LeftToRightOrder ==
    (RootApply /\ ret.kind \in {"None", "raise"}) =>
        LET first == EmittedFor(1, EmptyDict)
            second == EmittedFor(2, first.var_dict)
            n1 == Len(first.code)
            n2 == Len(second.code)
        IN /\ StartsWith(Hoisted, first.code)
           /\ (first.exc = "" /\ input.ast.children[1].value.str \notin {"neg", "sqr"}) =>
                 StartsWith(Hoisted, first.code \o second.code)
           /\ (Succeeded /\ RootArg(1).value = N_SET /\ RootArg(2).value = N_SET
                 /\ input.ast.children[1].value.str \notin {"neg", "sqr"}) =>
                 LET a == RootArg(1).children[1].value.str
                     b == RootArg(2).children[1].value.str
                 IN /\ n1 >= 1 /\ n1 < Len(Hoisted)
                    /\ \E k \in 1..n1 : Target(Hoisted[n1]) = Temp(a, k)
                    /\ \E k \in 1..Len(Hoisted) : Target(Hoisted[Len(Hoisted)]) = Temp(b, k)

\* Apply op [Set a, Set b] with different a and b was compiled
C9_Witness ==
    /\ RootApply /\ Succeeded
    /\ RootArg(1).value = N_SET /\ RootArg(2).value = N_SET
    /\ RootArg(1).children[1].value # RootArg(2).children[1].value
    /\ Len(Hoisted) = 2

(***************************************************************************)
(* Reading a session of main after a program was executed.                 *)
(***************************************************************************)
\* the last line was compiled, evaluated against B = locals and executed
Executed == pc = "read" /\ exec_error # NotRun

\* the Calculator evaluated the last line without error
Evaluates == Parses /\ calc.exc = ""

KeysOf(d) == {d.keys[i] : i \in 1..Len(d.keys)}

\* d and e bind name alike
SameBinding(d, e, name) ==
    /\ InDict(d, name) <=> InDict(e, name)
    /\ InDict(d, name) => DictGet(d, name) = DictGet(e, name)

\* t_NAME: the text is a NAME token, an identifier a user can write
t_NAME(s) ==
    /\ Len(s) > 0
    /\ IsNameStart(SubSeq(s, 1, 1))
    /\ EndOfName(s, 1) = Len(s) + 1

\* C1: for an expression that parses and that the Calculator evaluates
\* without error against B, executing the compiled statements in a context
\* initially equal to B succeeds and leaves every variable other than the
\* reserved _result bound as B binds it after the evaluation: none gained,
\* lost or changed
C1_FinalBindingsEquivalence ==
    (Executed /\ Evaluates) =>
        /\ exec_error = ""
        /\ \A name \in (KeysOf(locals) \cup KeysOf(calc.var_dict)) \ {"_result"} :
              SameBinding(locals, calc.var_dict, name)

\* C2: for such an expression, after all compiled statements have been
\* executed _result is bound to the value the Calculator returned
C2_ResultValueEquivalence ==
    (Executed /\ Evaluates) =>
        /\ exec_error = ""
        /\ InDict(locals, "_result")
        /\ DictGet(locals, "_result") = calc.value

\* C10: the name of a generation n > 0 is no identifier a user can write and
\* not the reserved _result (checked on every temporary a call assigns), and
\* different (variable, generation) pairs have different names
C10_TemporariesNeverCollide ==
    /\ Succeeded =>
          \A i \in 1..Len(Hoisted) :
              /\ ~t_NAME(Target(Hoisted[i]))
              /\ Target(Hoisted[i]) # "_result"
    /\ \A v \in RunAlphabet.names : \A w \in RunAlphabet.names :
          \A n \in 1..MaxRunNodes : \A m \in 1..MaxRunNodes :
              (make_gen_name(v, n) = make_gen_name(w, m)) => (v = w /\ n = m)

\* the statement of the last call that binds _result, "" if there is none
ResultStatement ==
    IF ResultIndex(Appended, 3) <= Len(Appended) /\ Len(Appended) >= 3
    THEN Appended[ResultIndex(Appended, 3)] ELSE ""

\* what compile appended in the last call: main appends print(_result) before
\* it executes the program
Emitted ==
    IF Executed THEN SubSeq(Appended, 1, Len(Appended) - 1) ELSE Appended

\* the Calculator failed on the last line for a variable without a value
UnboundVariable ==
    /\ calc.exc = "ValueError"
    /\ StartsWith(calc.msg, "Evaluation error, variable '")

\* C11: compile succeeds on every expression built from const, get, set, neg,
\* sqr and the binary operators, whatever the variables are bound to; a get
\* of a variable with no earlier set in the call renders as the bare name:
\* a tree without set nodes renders with bare names throughout, and a get
\* that is the first operand of the root renders bare even when the second
\* operand sets the variable
C11_BindingIndependence ==
    (Parses /\ input.ast # p_statement_empty /\ Arithmetic(input.ast)) =>
        /\ ret = None
        /\ SetFree(input.ast) =>
              Emitted = <<"# code for:", "# " \o input.expr_str,
                          "_result = " \o Rendering(input.ast)>>
        /\ (RootApply /\ RootArg(1).value = N_GET) =>
              StartsWith(ResultStatement,
                         "_result = (" \o RootArg(1).children[1].value.str \o " ")

\* the first operand reads x, the second sets it, and the Calculator fails on
\* the line because x has no value
C11_Witness ==
    /\ pc = "evaluated"
    /\ ret = None
    /\ UnboundVariable
    /\ RootApply /\ Arithmetic(input.ast)
    /\ RootArg(1).value = N_GET /\ RootArg(2).value = N_SET
    /\ RootArg(1).children[1].value = RootArg(2).children[1].value

\* parsing the last line gave diagnostics
Diagnosed == Called /\ Len(input.errors) > 0

\* C12: when parsing yields diagnostics, compile returns a diagnostic and
\* appends nothing to the buffer, empty or not, and Calculator.evaluate fails
\* on the diagnostics without evaluating a node: the binding store is as it
\* was
C12_DiagnosticsGate ==
    Diagnosed =>
        /\ ret.kind = "str"
        /\ StartsWith(ret.msg, "Parsing generated errors:\n")
        /\ code = code_before
        /\ \A buffer \in {<<>>, <<"# code for:", "# 1", "_result = 1">>} :
              compile(input, buffer).code = buffer
        /\ calc # NotEvaluated =>
              /\ calc.exc = "ValueError"
              /\ StartsWith(calc.msg, "Parsing generated errors:\n")
              /\ calc.var_dict = locals

\* a malformed line was compiled and evaluated after an earlier line had
\* bound a variable
C12_Witness ==
    /\ Diagnosed
    /\ calc.exc = "ValueError"
    /\ pc = "read"
    /\ \E v \in RunAlphabet.names \ {"_result"} : InDict(locals, v)

\* C13: for the pass tree of the empty input compile returns None and leaves
\* the buffer as it was
C13_EmptyInputCompilesToNothing ==
    (Called /\ input = EmptyInput) =>
        /\ ret = None
        /\ code = code_before

\* the Calculator evaluated the last line
Evaluated == Called /\ calc # NotEvaluated

\* C14: apart from a division by zero, the evaluation of a tree that parsed
\* without diagnostics fails only for an operator without implementation or
\* for a variable without a value; the pass tree of the empty input does not
\* fail
C14_EvaluatorFailureConditions ==
    (Evaluated /\ Parses) =>
        /\ calc.exc # "" =>
              \/ calc.exc = "ZeroDivisionError"
              \/ /\ calc.exc = "ValueError"
                 /\ StartsWith(calc.msg, "Evaluation error, no implementation of operation '")
              \/ UnboundVariable
        /\ input = EmptyInput => calc.exc = ""

\* the evaluation of the last line failed below a root apply node whose first
\* argument is a set; locals is still the store the evaluation started from
FailedAfterSet ==
    /\ pc = "evaluated"
    /\ Parses /\ calc.exc # ""
    /\ RootApply /\ has_fn(input.ast.children[1].value.str)
    /\ RootArg(1).value = N_SET
    /\ evaluate_ast(RootArg(1), locals).exc = ""

\* C15: when the evaluation fails, the writes of the set nodes completed
\* before the failure stay in the binding store: after a first argument that
\* is a set has been evaluated, the store of the failed evaluation is the one
\* the second argument left, it binds everything the first argument bound,
\* and the variable of the set holds the value assigned unless the second
\* argument sets it again; no binding of the initial store is ever removed
C15_PartialEffectsSurviveFailure ==
    /\ (pc = "evaluated" /\ Parses) => KeysOf(locals) \subseteq KeysOf(calc.var_dict)
    /\ FailedAfterSet =>
          LET a == RootArg(1).children[1].value.str
              first == evaluate_ast(RootArg(1), locals)
              second == evaluate_ast(RootArg(2), first.var_dict)
          IN /\ calc.var_dict = second.var_dict
             /\ KeysOf(first.var_dict) \subseteq KeysOf(calc.var_dict)
             /\ InDict(calc.var_dict, a)
             /\ CountSets(RootArg(2), a) = 0 => DictGet(calc.var_dict, a) = first.value

\* a failed evaluation left a variable bound that was not bound before
C15_Witness ==
    /\ FailedAfterSet
    /\ ~InDict(locals, RootArg(1).children[1].value.str)
    /\ InDict(calc.var_dict, RootArg(1).children[1].value.str)

AssignedEarlier(v) ==
    \E i \in 1..Len(code_before) : code_before[i] = "del(" \o Temp(v, 1) \o ")"

\* C17: every call of compile starts with an empty generation map, whatever
\* earlier calls on the same buffer assigned: the first set of v in the call
\* assigns _v_1, a get of v before any set of the call renders bare v, and
\* the call appends what it appends to an empty buffer
C17_GenerationMapPerCall ==
    (Parses /\ Len(code_before) > 0) =>
        /\ \A v \in Names : Reached(v) > 0 => Target(HoistedFor(v)[1]) = Temp(v, 1)
        /\ (ret = None /\ input.ast.value = N_GET) =>
              ResultStatement = "_result = " \o input.ast.children[1].value.str
        /\ (ret = None /\ input.ast.value = N_SET /\ input.ast.children[2].value = N_GET) =>
              Hoisted = <<Temp(input.ast.children[1].value.str, 1) \o " = "
                             \o input.ast.children[2].children[1].value.str>>
        /\ Appended = compile(input, <<>>).code

\* after a call that assigned x, a call compiled a set of x to a get of x
C17_Witness ==
    /\ Succeeded
    /\ \E v \in Names :
          /\ AssignedEarlier(v)
          /\ input.ast = p_expression_assign(v, p_expression_name(v))
          /\ Hoisted = <<Temp(v, 1) \o " = " \o v>>

\* the step of main that executes the program of the last line
ExecuteStep == pc = "evaluated" /\ pc' = "read" /\ exec_error' # NotRun

\* the generations the variables reached in the last call
Generations == compile_ast(input.ast, EmptyDict, <<>>).var_dict

\* the context after the statements up to the _result statement, that is
\* before the cleanup
BeforeCleanup ==
    exec(join("\n", SubSeq(Appended, 1, ResultIndex(Appended, 3))), locals).env

\* C18: once all statements of a successful compile have been executed, no
\* temporary name the call assigned is bound in the context, and the bare
\* name of every assigned variable holds the value its highest generation
\* had before the cleanup
C18_NoStaleTemporaries ==
    [][(ExecuteStep /\ exec_error' = "") =>
          /\ \A i \in 1..Len(Hoisted) : ~InDict(locals', Target(Hoisted[i]))
          /\ \A v \in KeysOf(Generations) :
                /\ InDict(locals', v)
                /\ DictGet(locals', v)
                      = DictGet(BeforeCleanup, make_gen_name(v, DictGet(Generations, v)))
      ]_vars

\* C19: for every tree that parse produces from an input without
\* diagnostics, unparse returns a string, and parsing that string yields no
\* diagnostics and a tree equal to the one unparsed
C19_RoundTrip ==
    unparsed # NotUnparsed =>
        /\ unparsed.exc = ""
        /\ Len(parse_token(unparsed.text).errors) = 0
        /\ parse_token(unparsed.text).ast = unparsed.ast

\* what the diagnostics list handed to the owner p shows now: parse returns
\* self.error_stack itself, and every ExprParser is built on the one list
Diagnostics(p) == error_stack

\* C20: the diagnostics sequence returned by one parse call is not changed by
\* any later parse call, through the same parser or through another
\* ExprParser instance
C20_NoSharedDiagnostics ==
    \A p \in Parsers : errors[p].returned => Diagnostics(p) = errors[p].at_return

\* C21: every element that was in the buffer before a call of compile is
\* there, unchanged and at the same index, after the call, and only a
\* successful call adds elements: the buffer is the prior content followed
\* by the outputs of the successful calls
C21_AppendOnlyBuffer ==
    Called => /\ StartsWith(code, code_before)
              /\ (~Succeeded => code = code_before)

\* the root of the tree is a set node whose expression holds further set nodes
RootSet == Succeeded /\ input.ast.value = N_SET /\ ~SetFree(input.ast.children[2])

\* the _result statement of the last call, "" if there is none
ResultOf ==
    IF ResultIndex(Appended, 3) <= Len(Appended) THEN Appended[ResultIndex(Appended, 3)]
    ELSE ""

\* C22: for a set node whose expression holds further set nodes, the
\* statements of the inner sets are in the buffer before the statement of the
\* outer set, the right-hand side of that statement is the rendering of the
\* expression, and the set node itself is rendered as the name of the
\* generation it allocated
C22_NestedAssignmentOrder ==
    RootSet =>
        LET v == input.ast.children[1].value.str
            inner == compile_ast(input.ast.children[2], EmptyDict, <<>>)
            own == Temp(v, Reached(v))
        IN /\ Hoisted = Append(inner.code, own \o " = " \o inner.code_str)
           /\ ResultOf = "_result = " \o own

C22_Witness ==
    /\ RootSet
    /\ Len(Hoisted) >= 3
    /\ Reached(input.ast.children[1].value.str) >= 2

\* the root is the application of a binary operator to two operands
RootBinary ==
    /\ Succeeded
    /\ RootApply
    /\ Len(input.ast.children) = 3
    /\ input.ast.children[1].value.str \notin {"neg", "sqr"}

\* the name of generation g of v, bare v for g = 0
GenerationName(v, g) == IF g = 0 THEN v ELSE Temp(v, g)

\* C23: a get of v renders the name of generation g, g the number of
\* assignments of v emitted so far in the call (bare v for 0): a get to the
\* left of a set of v, or inside the right-hand side of that set, renders the
\* generation before the set, a get to the right renders the new one; a get
\* emits no statement
C23_GetRendersCurrentGeneration ==
    /\ (Succeeded /\ input.ast.value = N_GET) =>
          /\ Hoisted = <<>>
          /\ ResultOf = "_result = " \o input.ast.children[1].value.str
    /\ (Succeeded /\ input.ast.value = N_SET /\ input.ast.children[2].value = N_GET) =>
          Hoisted = <<Temp(input.ast.children[1].value.str, 1) \o " = "
                      \o input.ast.children[2].children[1].value.str>>
    /\ (RootBinary /\ RootArg(1).value = N_GET) =>
          /\ Hoisted = EmittedFor(2, EmptyDict).code
          /\ StartsWith(ResultOf, "_result = (" \o RootArg(1).children[1].value.str \o " ")
    /\ (RootBinary /\ RootArg(2).value = N_GET) =>
          LET v == RootArg(2).children[1].value.str
              first == EmittedFor(1, EmptyDict)
          IN /\ Hoisted = first.code
             /\ ResultOf = "_result = (" \o first.code_str \o " "
                           \o input.ast.children[1].value.str \o " "
                           \o GenerationName(v, Reached(v)) \o ")"

\* ((x = (x = ...)) + x): a get to the right of two sets of its variable
C23_Witness ==
    /\ RootBinary
    /\ RootArg(2).value = N_GET
    /\ Reached(RootArg(2).children[1].value.str) >= 2

\* the variable a line "# Update and cleanup v" opens the block of, "" for
\* any other statement
BlockOf(stmt) ==
    IF StartsWith(stmt, "# Update and cleanup ")
    THEN SubSeq(stmt, Len("# Update and cleanup ") + 1, Len(stmt))
    ELSE ""

\* the variable whose block holds statement i of the cleanup: that of the
\* nearest opening line at or before i
RECURSIVE Owner(_)
Owner(i) ==
    IF i < 1 THEN ""
    ELSE IF BlockOf(Cleanup[i]) # "" THEN BlockOf(Cleanup[i])
    ELSE Owner(i - 1)

\* a name without its leading underscore, if it has one
Stripped(name) ==
    IF StartsWith(name, "_") THEN SubSeq(name, 2, Len(name)) ELSE name

\* the statements a cleanup block of v may hold
BlockStatements(v) ==
    {"# Update and cleanup " \o v}
    \cup {v \o " = " \o Temp(v, g) : g \in 1..(MaxSortNodes + 1)}
    \cup {"del(" \o Temp(v, g) \o ")" : g \in 1..(MaxSortNodes + 1)}

\* C24: the cleanup block of each variable, its update followed by its
\* deletions, is contiguous and not interleaved with the block of another
\* variable, and the blocks are in ascending order of the variable names
\* compared without one leading underscore, also for x and x1 and for x and _x
C24_CleanupOrdering ==
    Succeeded =>
        /\ \A i \in 1..Len(Cleanup) :
              Owner(i) # "" /\ Cleanup[i] \in BlockStatements(Owner(i))
        /\ \A i, j \in 1..Len(Cleanup) :
              (i < j /\ BlockOf(Cleanup[i]) # "" /\ BlockOf(Cleanup[j]) # "") =>
                  /\ BlockOf(Cleanup[i]) # BlockOf(Cleanup[j])
                  /\ ~str_lt(Stripped(BlockOf(Cleanup[j])), Stripped(BlockOf(Cleanup[i])))

\* x1 is assigned before x, and x and _x are both assigned
C24_Witness ==
    /\ Succeeded
    /\ Len(Hoisted) >= 2
    /\ \/ /\ Target(Hoisted[1]) = Temp("x1", 1)
          /\ Target(Hoisted[Len(Hoisted)]) = Temp("x", 1)
          /\ Owner(Len(Cleanup)) = "x1"
       \/ /\ Target(Hoisted[1]) = Temp("_x", 1)
          /\ Target(Hoisted[Len(Hoisted)]) = Temp("x", 1)

\* C25: every element compile appends to the buffer is one statement on one
\* line without indentation, and the two marker elements are comments that
\* execute as no-ops, for every input that parses without diagnostics, also
\* when newlines separate its tokens
C25_MarkerLinesAreHarmless ==
    Succeeded =>
        /\ \A i \in 1..Len(Appended) :
              /\ Len(split(Appended[i])) = 1
              /\ At(Appended[i], 1) \notin {" ", "\t"}
        /\ \A i \in 1..2 :
              /\ StartsWith(Appended[i], "#")
              /\ exec(Appended[i], EmptyDict) = [exc |-> "", msg |-> "", env |-> EmptyDict]

\* path p comes before path q in the order of a left-to-right walk: p is a
\* proper prefix of q, or p turns to an earlier child where they part
RECURSIVE PathBefore(_, _)
PathBefore(p, q) ==
    IF Len(q) = 0 THEN FALSE
    ELSE IF Len(p) = 0 THEN TRUE
    ELSE IF Head(p) # Head(q) THEN Head(p) < Head(q)
    ELSE PathBefore(Tail(p), Tail(q))

\* the nodes of a tree that are set nodes
RECURSIVE CountAllSets(_)
RECURSIVE CountAllSetsIn(_)
CountAllSets(t) == (IF t.value = N_SET THEN 1 ELSE 0) + CountAllSetsIn(t.children)

CountAllSetsIn(ts) ==
    IF Len(ts) = 0 THEN 0 ELSE CountAllSets(Head(ts)) + CountAllSetsIn(Tail(ts))

\* the events of the evaluation of the last line
Events == evaluate_ast_events(input.ast, locals, <<>>)

Visits == SelectSeq(Events, LAMBDA e : e[1] = "visit")

Writes == SelectSeq(Events, LAMBDA e : e[1] = "write")

\* C26: in one call of evaluate no node is visited twice and the arguments
\* of an apply are visited in child order; a set node writes its binding
\* once, after its expression is fully evaluated, and not at all when the
\* expression fails
C26_SingleEvaluation ==
    (pc = "evaluated" /\ Len(input.errors) = 0) =>
        /\ \A a, b \in 1..Len(Visits) : a < b => PathBefore(Visits[a][2], Visits[b][2])
        /\ \A a, b \in 1..Len(Writes) : a # b => Writes[a][2] # Writes[b][2]
        /\ \A a, b \in 1..Len(Events) :
              (Events[a][1] = "write" /\ Events[b][1] = "visit"
               /\ PathBefore(Events[a][2], Events[b][2]) /\ StartsWith(Events[b][2], Events[a][2]))
                  => b < a
        /\ \A a \in 1..Len(Writes) : InDict(calc.var_dict, Writes[a][3])
        /\ calc.exc = "" => Len(Writes) = CountAllSets(input.ast)

\* an apply whose two arguments were evaluated, one of them a set
C26_Witness ==
    /\ pc = "evaluated"
    /\ calc.exc = ""
    /\ input.ast.value = N_APPLY
    /\ Len(input.ast.children) = 3
    /\ Len(Writes) >= 1
    /\ Len(Visits) >= 4

\* C27: on a successful compile every set node of the tree contributes one
\* assignment statement: the number of hoisted statements between the marker
\* lines and the _result statement is the number of set nodes of the tree,
\* also for set nodes in any argument position of a function call
C27_EveryAssignmentHoistedOnce ==
    Succeeded => Len(Hoisted) = CountAllSets(input.ast)

\* the names that occur in a text from position i on
RECURSIVE IdentifiersFrom(_, _)
IdentifiersFrom(s, i) ==
    IF i > Len(s) THEN {}
    ELSE IF IsNameStart(SubSeq(s, i, i))
    THEN {SubSeq(s, i, EndOfName(s, i) - 1)} \cup IdentifiersFrom(s, EndOfName(s, i))
    ELSE IF IsDigit(SubSeq(s, i, i)) THEN IdentifiersFrom(s, EndOfNumber(s, i))
    ELSE IdentifiersFrom(s, i + 1)

\* the generation names of the variables of a session
Temporaries == {Temp(v, k) : v \in Names, k \in 1..(MaxNodes + 1)}

\* the name a statement del(name) deletes, "" for any other statement
Deleted(stmt) ==
    IF StartsWith(stmt, "del(") THEN SubSeq(stmt, 5, Len(stmt) - 1) ELSE ""

\* the names a statement reads: those of its right-hand side
Used(stmt) ==
    IF StartsWith(stmt, "#") \/ Deleted(stmt) # "" \/ Target(stmt) = "" THEN {}
    ELSE IdentifiersFrom(stmt, Len(Target(stmt)) + 4)

\* the temporaries bound when statement i of the last call begins: assigned
\* by an earlier statement of the call and not deleted since
RECURSIVE BoundAt(_)
BoundAt(i) ==
    IF i <= 1 THEN {}
    ELSE LET stmt == Appended[i - 1]
         IN IF StartsWith(stmt, "#") THEN BoundAt(i - 1)
            ELSE IF Deleted(stmt) # "" THEN BoundAt(i - 1) \ {Deleted(stmt)}
            ELSE BoundAt(i - 1) \cup ({Target(stmt)} \cap Temporaries)

AfterPrefix(k) == exec(join("\n", SubSeq(Appended, 1, k)), locals).env

\* the variables a user of a session of main names, _result apart
UserVariables == RunAlphabet.names \ {"_result"}

\* C29: bare names are written in the cleanup only: executing any prefix of
\* the compiled code that ends at or before the _result statement leaves
\* every bare user variable of the execution context as it was
C29_BareNamesWrittenOnlyInCleanup ==
    (pc = "evaluated" /\ ret = None) =>
        \A k \in 0..Len(Appended) :
            k <= ResultIndex(Appended, 3) =>
                \A v \in UserVariables : SameBinding(locals, AfterPrefix(k), v)

\* the node of a tree at the end of a path of child indices
RECURSIVE NodeAt(_, _)
NodeAt(t, path) ==
    IF Len(path) = 0 THEN t ELSE NodeAt(t.children[Head(path)], Tail(path))

\* the node is an apply whose operator has no implementation
Unimplemented(t) == t.value = N_APPLY /\ ~has_fn(t.children[1].value.str)

\* the step of calculator.main that evaluates a line
CalculatorStep == stack' = <<>>

\* C30: when evaluate_ast reaches an apply whose operator has no
\* implementation it fails before it evaluates any argument of that apply:
\* set nodes inside the arguments write nothing to the binding store, and
\* the writes of the sub-expressions evaluated before are kept
C30_UnknownOperatorFailsFirst ==
    [][(CalculatorStep /\ Len(input'.errors) = 0) =>
          LET events == evaluate_ast_events(input'.ast, locals, <<>>)
              written == {events[a][3] : a \in {b \in 1..Len(events) : events[b][1] = "write"}}
          IN /\ Unimplemented(input'.ast) => (locals' = locals /\ calc'.exc = "ValueError")
             /\ \A a \in 1..Len(events) :
                   (events[a][1] = "visit" /\ Unimplemented(NodeAt(input'.ast, events[a][2]))) =>
                       /\ a = Len(events)
                       /\ calc'.exc = "ValueError"
                       /\ StartsWith(calc'.msg, "Evaluation error, no implementation")
                       /\ KeysOf(locals') = KeysOf(locals) \cup written
                       /\ \A v \in KeysOf(locals) \ written : SameBinding(locals, locals', v)
      ]_vars

\* ((x = 1) + f((x = 0))): x holds 1 after the failure
C30_Witness ==
    /\ calc.exc = "ValueError"
    /\ StartsWith(calc.msg, "Evaluation error, no implementation")
    /\ input.ast.value = N_APPLY
    /\ Len(input.ast.children) = 3
    /\ input.ast.children[2].value = N_SET
    /\ Unimplemented(input.ast.children[3])
    /\ ~SetFree(input.ast.children[3])
    /\ InDict(locals, "x")
    /\ DictGet(locals, "x") = FromInt(1)
    /\ input.ast.children[3].children[2].children[2] = p_expression_number(0)
====
